---- MODULE Spec2Model ----
(***************************************************************************)
(* PTYHooks (src/src/ptyhooks.py): main() spawns a subprocess on a pty and *)
(* relays bytes between the controlling terminal and the pty master,       *)
(* running each chunk through a chain of hooks.  The model follows main()  *)
(* statement by statement; the kernel side (subprocess, pty buffer,        *)
(* controlling input, signals) is the environment.                         *)
(***************************************************************************)
EXTENDS Integers, Sequences, FiniteSets, TLC

(* ----------------------------- bounds --------------------------------- *)
\* chunks entering the relay in one run: emitted on the pty by the
\* subprocess side plus typed on the controlling input
MaxChunks == 2
\* longest byte string handed to write() in the stand-alone write runs
MaxData == 3
\* what the pty holds in each direction before a writer has to wait: chunks
\* of the subprocess not yet read from the master, bytes written to the
\* master not yet read by the subprocess
PtyCap == 1

(* ------------------------------ data ---------------------------------- *)
\* descriptors (src/src/ptyhooks.py:47-48, 126)
STDIN_FILENO == "STDIN_FILENO"
STDOUT_FILENO == "STDOUT_FILENO"
parent_fd == "parent_fd"

\* Python's None for the handler / attribute slots
None == "None"

\* bytes are small integers; a chunk is the unit one read() returns
OutChunks == {<<97>>, <<120>>}
InChunks == {<<3>>, <<97>>}
Bytes == {3, 97, 98}

\* exit statuses process.wait() can return (exit code, or -signal)
Statuses == {0, -9}

\* what a hook call can produce: no result, a byte string (maybe empty), or
\* an exception
NoResult == [kind |-> "none", val |-> <<>>]
Result(b) == [kind |-> "bytes", val |-> b]
Raises == [kind |-> "raise", val |-> <<>>]

\* the hooks of the configurations explored; a hook is a callable
\* hook(data, fd) supplied by the configuration module (lines 277-278)
Hook(h, d) ==
    CASE h = "a2b" -> IF d = <<97>> THEN Result(<<98>>) ELSE NoResult
      [] h = "identity" -> Result(d)
      [] h = "passthru" -> NoResult
      [] h = "bang" -> Result(d \o <<33>>)
      [] h = "drop03" -> IF d = <<3>> THEN Result(<<>>) ELSE NoResult
      [] h = "dropx" -> IF Head(d) = 120 THEN Result(<<>>) ELSE NoResult
      [] h = "boom" -> IF d = <<97>> THEN Raises ELSE NoResult

\* the configurations explored: <<PTY_OUTPUT_HOOKS, PTY_INPUT_HOOKS>>
HookConfigs ==
    { << <<>>, <<>> >>,
      << <<"a2b", "identity">>, <<>> >>,
      << <<"bang", "a2b">>, <<"passthru">> >>,
      << <<"a2b", "dropx", "bang">>, <<"drop03", "bang">> >>,
      << <<"passthru", "boom">>, <<"bang">> >>,
      << <<>>, <<"drop03">> >> }

\* the process states main() is entered in: <<stdin is a terminal, the
\* interpreter retries interrupted calls itself (3.5 and later), the
\* SIGWINCH disposition, the SIGCHLD disposition>>
SysConfigs ==
    { <<TRUE, FALSE, "SIG_DFL", "SIG_DFL">>,
      <<TRUE, TRUE, "SIG_DFL", "SIG_DFL">>,
      <<TRUE, FALSE, "user", "user">>,
      <<TRUE, FALSE, "SIG_IGN", "SIG_IGN">>,
      <<TRUE, TRUE, "user", "SIG_IGN">>,
      <<FALSE, FALSE, "SIG_DFL", "SIG_DFL">>,
      <<FALSE, FALSE, "user", "SIG_IGN">>,
      <<FALSE, TRUE, "SIG_IGN", "user">> }

\* window sizes (struct winsize, lines 94-99) are recorded by how they
\* compare with the size of the controlling terminal: the size it has now,
\* or a size it had before a resize
Current == "current"
Stale == "stale"

\* what a recorded size is once the terminal has been resized
Aged(g) == IF g = Current THEN Stale ELSE g

\* Python truthiness of a handler slot: SIG_DFL is 0 and None is None, both
\* false; SIG_IGN is 1 and a callable is an object, both true
Truthy(h) == h \notin {"SIG_DFL", None}

\* a disposition that runs Python code when the signal arrives
IsHandler(h) == h \notin {"SIG_DFL", "SIG_IGN", None}

RECURSIVE Flatten(_)
Flatten(ss) == IF ss = <<>> THEN <<>> ELSE Head(ss) \o Flatten(Tail(ss))

\* data[-remaining:] for 0 < remaining <= len(data)
Suffix(data, remaining) == SubSeq(data, Len(data) - remaining + 1, Len(data))

VARIABLES
    \* configuration of one invocation
    input_hooks, output_hooks, isatty, py35, entryWinch, entryChld, entryAttr,
    \* main()'s locals and position
    pc, exc, original_tty_attr, old_sigchld_handler, old_sigwinch_handler,
    monitored_files, read_ready, data, hi, orig, hookCalls, gotEmpty,
    \* write()'s locals
    wfd, wdata, remaining, wsegs, wret,
    \* the process's resources
    masterOpen, childFdOpen, ttyAttr, sigWinch, sigChld, retval,
    \* the environment: subprocess, pty, controlling input, signals
    spawned, slaveOpen, childStatus, ptyOut, stdinBuf, stdinEOF,
    \* window sizes: of the pty, and the one the subprocess read at its
    \* last SIGWINCH; and whether copy_winsize was called on parent_fd after
    \* its close
    masterGeom, childGeom, usedClosed,
    \* flow control of the pty: bytes written to the master that the slave
    \* side has not read, and whether the subprocess sleeps in a write to a
    \* full pty
    ptyIn, childBlocked,
    \* history
    emitted, stdoutWrites, typed, masterWrites, tdlog, ended

cfgVars == <<input_hooks, output_hooks, isatty, py35, entryWinch, entryChld, entryAttr>>
locVars == <<original_tty_attr, old_sigchld_handler, old_sigwinch_handler>>
loopVars == <<monitored_files, read_ready>>
chainVars == <<data, hi, orig, hookCalls, gotEmpty>>
writeVars == <<wfd, wdata, remaining, wsegs, wret>>
resVars == <<masterOpen, childFdOpen, ttyAttr, sigWinch, sigChld, retval>>
envVars == <<spawned, slaveOpen, childStatus, ptyOut, stdinBuf, stdinEOF>>
flowVars == <<ptyIn, childBlocked>>
geomVars == <<masterGeom, childGeom, usedClosed>>
relayVars == <<emitted, stdoutWrites, typed, masterWrites>>
histVars == <<emitted, stdoutWrites, typed, masterWrites, tdlog, ended>>
vars == <<cfgVars, pc, exc, locVars, loopVars, chainVars, writeVars, resVars, envVars, geomVars,
          flowVars, histVars>>

(* ------------------------------ Init ---------------------------------- *)
\* the part of the state that does not depend on the configuration
InitRest ==
    /\ exc = "none"
    /\ original_tty_attr = None
    /\ old_sigchld_handler = None
    /\ old_sigwinch_handler = None
    /\ monitored_files = {}
    /\ read_ready = {}
    /\ hi = 1 /\ orig = <<>> /\ hookCalls = <<>> /\ gotEmpty = FALSE
    /\ wdata = <<>> /\ remaining = 0 /\ wsegs = <<>>
    /\ masterOpen = FALSE /\ childFdOpen = FALSE
    /\ ttyAttr = entryAttr /\ sigWinch = entryWinch /\ sigChld = entryChld
    /\ retval = <<>>
    /\ childStatus = <<>> /\ ptyIn = 0 /\ childBlocked = FALSE
    /\ ptyOut = <<>> /\ stdinBuf = <<>> /\ stdinEOF = FALSE
    /\ masterGeom = None /\ childGeom = None /\ usedClosed = FALSE
    /\ emitted = <<>> /\ stdoutWrites = <<>> /\ typed = <<>>
    /\ masterWrites = <<>> /\ tdlog = <<>> /\ ended = "no"

\* main(argv, input_hooks, output_hooks) is entered (line 118)
Init ==
    /\ \E h \in HookConfigs : output_hooks = h[1] /\ input_hooks = h[2]
    /\ \E c \in SysConfigs :
         isatty = c[1] /\ py35 = c[2] /\ entryWinch = c[3] /\ entryChld = c[4]
    /\ entryAttr = IF isatty THEN "cooked" ELSE "notty"
    /\ pc = "main"
    /\ wfd = STDOUT_FILENO /\ wret = "select"
    /\ data = <<>>
    /\ spawned = FALSE /\ slaveOpen = FALSE
    /\ InitRest

(* --------------------------- main(): setup ---------------------------- *)
\* a fast path taken as soon as one of the lists is empty
NoHooksEither == input_hooks = <<>> \/ output_hooks = <<>>

\* line 123: not input_hooks and not output_hooks
NoHooks == input_hooks = <<>> /\ output_hooks = <<>>

\* line 124: os.execlp(argv[0], *argv) replaces the process image; nothing
\* of main() runs afterwards
Exec ==
    /\ pc = "main" /\ NoHooks
    /\ pc' = "execed"
    /\ UNCHANGED <<cfgVars, geomVars, flowVars, exc, locVars, loopVars, chainVars, writeVars, resVars, envVars, histVars>>

\* line 124: os.execlp raises (argv[0] not found); the exception leaves
\* main() before the first try block
ExecFails ==
    /\ pc = "main" /\ NoHooks
    /\ pc' = "exec_error" /\ exc' = "exec"
    /\ UNCHANGED <<cfgVars, geomVars, flowVars, locVars, loopVars, chainVars, writeVars, resVars, envVars, histVars>>

\* line 126: pty.openpty()
OpenPty ==
    /\ pc = "main" /\ ~NoHooks
    /\ masterOpen' = TRUE /\ childFdOpen' = TRUE
    /\ pc' = "setraw"
    /\ UNCHANGED <<cfgVars, geomVars, flowVars, exc, locVars, loopVars, chainVars, writeVars, ttyAttr, sigWinch,
                   sigChld, retval, envVars, histVars>>

\* lines 128-132: capture the attributes and enter raw mode; tty.error when
\* stdin is no terminal
SetRaw ==
    /\ pc = "setraw"
    /\ IF isatty
         THEN original_tty_attr' = ttyAttr /\ ttyAttr' = "raw"
         ELSE original_tty_attr' = None /\ UNCHANGED ttyAttr
    /\ pc' = "sigchld"
    /\ UNCHANGED <<cfgVars, geomVars, flowVars, exc, old_sigchld_handler, old_sigwinch_handler, loopVars, chainVars,
                   writeVars, masterOpen, childFdOpen, sigWinch, sigChld, retval, envVars,
                   histVars>>

\* lines 138-142: dummy SIGCHLD handler when none is set
SigchldSetup ==
    /\ pc = "sigchld"
    /\ old_sigchld_handler' = sigChld
    /\ sigChld' = IF ~Truthy(sigChld) THEN "dummy" ELSE sigChld
    /\ old_sigwinch_handler' = None
    /\ pc' = "popen"
    /\ UNCHANGED <<cfgVars, geomVars, flowVars, exc, original_tty_attr, loopVars, chainVars, writeVars, masterOpen,
                   childFdOpen, ttyAttr, sigWinch, retval, envVars, histVars>>

\* a finally clause that closes the master before anything is restored
FinallyOrderCloseFirst == <<"fin_close", "fin_winch", "fin_tty", "fin_chld">>

\* lines 236-243: the statements of the finally clause, in program order
FinallyOrder == <<"fin_winch", "fin_tty", "fin_chld", "fin_close">>

FinallyStart == "finally"

\* the loop is left (break or exception) for the finally clause, line 236,
\* which reads none of the locals of the iteration
LeaveLoop ==
    /\ pc' = FinallyStart
    /\ read_ready' = {}
    /\ data' = <<>> /\ hi' = 1 /\ orig' = <<>> /\ hookCalls' = <<>> /\ gotEmpty' = FALSE
    /\ wfd' = STDOUT_FILENO /\ wdata' = <<>> /\ remaining' = 0 /\ wsegs' = <<>>
    /\ wret' = "select"
    /\ UNCHANGED monitored_files

\* an exception leaves the try block; the record of what was relayed ends
\* here (what holds on the error paths is about the teardown)
RaiseTo(kind) ==
    /\ LeaveLoop /\ exc' = kind
    /\ emitted' = <<>> /\ stdoutWrites' = <<>> /\ typed' = <<>> /\ masterWrites' = <<>>

\* lines 143-144: subprocess.Popen succeeds
Popen ==
    /\ pc = "popen"
    /\ spawned' = TRUE /\ slaveOpen' = TRUE
    /\ pc' = "close_child"
    /\ UNCHANGED <<cfgVars, geomVars, flowVars, exc, locVars, loopVars, chainVars, writeVars, resVars, childStatus,
                   ptyOut, stdinBuf, stdinEOF, histVars>>

\* lines 143-144: subprocess.Popen raises (argv not executable)
PopenFails ==
    /\ pc = "popen"
    /\ RaiseTo("spawn")
    /\ ended' = "error"
    /\ UNCHANGED <<cfgVars, geomVars, flowVars, locVars, resVars, envVars, tdlog>>

\* line 145: os.close(child_fd)
CloseChildFd ==
    /\ pc = "close_child"
    /\ childFdOpen' = FALSE
    /\ pc' = "winch"
    /\ UNCHANGED <<cfgVars, geomVars, flowVars, exc, locVars, loopVars, chainVars, writeVars, masterOpen, ttyAttr,
                   sigWinch, sigChld, retval, envVars, histVars>>

\* a copy that leaves the target as it is
copy_nothing(target, source) == target

\* lines 88-104: copy_winsize(target_fd, source_fd): the size read from the
\* source (TIOCGWINSZ) is the size the target has afterwards (TIOCSWINSZ)
copy_winsize(target, source) == source

\* line 154 / 161: process.send_signal(SIGWINCH); a live subprocess
\* reads the size of its terminal, the slave of the pty; a terminated one
\* reads nothing
send_signal(seen, pty) == IF childStatus = <<>> THEN pty ELSE seen

\* lines 147-163: resize handler when stdin is a terminal, then the
\* monitored list
WinchSetup ==
    /\ pc = "winch"
    /\ IF isatty
         THEN /\ old_sigwinch_handler' = sigWinch /\ sigWinch' = "sigwinch_handler"
              /\ masterGeom' = copy_winsize(masterGeom, Current)
              /\ childGeom' = send_signal(childGeom, masterGeom')
         ELSE UNCHANGED <<old_sigwinch_handler, sigWinch, masterGeom, childGeom>>
    /\ monitored_files' = {parent_fd, STDIN_FILENO}
    /\ pc' = "select"
    /\ UNCHANGED <<cfgVars, flowVars, usedClosed, exc, original_tty_attr, old_sigchld_handler, read_ready, chainVars,
                   writeVars, masterOpen, childFdOpen, ttyAttr, sigChld, retval, envVars,
                   histVars>>

(* ------------------------- main(): relay loop ------------------------- *)
\* no descriptor of the slave is open any more, in the subprocess and its
\* descendants or in this process (child_fd, line 145): reads and writes on
\* the master fail with EIO (Linux) or read zero bytes (BSD)
HungUp == ~slaveOpen /\ ~childFdOpen

\* descriptors select() reports readable: the master when the pty holds a
\* chunk or the slave side is closed, stdin when input or end-of-input waits
Ready ==
    { f \in monitored_files :
        \/ f = parent_fd /\ (ptyOut # <<>> \/ HungUp)
        \/ f = STDIN_FILENO /\ (stdinBuf # <<>> \/ stdinEOF) }

\* main() sleeps in select(): nothing monitored is readable
Blocked == pc = "select" /\ Ready = {}

\* lines 164-168: loop test and select.select returning the ready list
Select ==
    /\ pc = "select"
    /\ IF monitored_files = {}
         THEN LeaveLoop /\ ended' = "empty"
         ELSE /\ Ready # {}
              /\ read_ready' = Ready
              /\ pc' = IF parent_fd \in Ready THEN "read_master" ELSE "read_stdin"
              /\ UNCHANGED <<ended, monitored_files, chainVars, writeVars>>
    /\ UNCHANGED <<cfgVars, geomVars, flowVars, exc, locVars, resVars,
                   envVars, emitted, stdoutWrites, typed, masterWrites, tdlog>>

\* a poll that never reports the termination
PollNeverDone == FALSE

\* lines 172, 180: process.poll() is not None
PollIsNotNone == childStatus # <<>>

\* lines 169-183: select was interrupted; break when the subprocess is gone,
\* else retry

SelectEintr ==
    /\ pc = "select_eintr"
    /\ IF PollIsNotNone
         THEN LeaveLoop /\ ended' = "eintr"
         ELSE pc' = "select" /\ UNCHANGED <<ended, loopVars, chainVars, writeVars>>
    /\ UNCHANGED <<cfgVars, geomVars, flowVars, exc, locVars, resVars, envVars,
                   emitted, stdoutWrites, typed, masterWrites, tdlog>>

\* lines 171, 179, 196, 220 and _write: an error other than EINTR (and other
\* than EIO on the master) on select, a read or a write leaves the loop
FatalIO ==
    /\ pc \in {"select", "read_master", "read_stdin", "write"}
    /\ RaiseTo("io")
    /\ ended' = "error"
    /\ UNCHANGED <<cfgVars, geomVars, flowVars, locVars, resVars, envVars, tdlog>>

\* lines 73-74, 190, 115: the calls made through eintr_protect, read on the
\* master and _write; line 220 calls os.read itself
EintrProtected == {"read_master", "write"}

\* lines 57-78, 220: a signal with a Python-level handler arrives while a
\* read or a write sleeps (the input select reported may be gone by the
\* time of the read when the terminal is shared).  From 3.5 on the
\* interpreter retries the call; before, the call fails with EINTR, which
\* eintr_protect answers by making the same call again and which leaves
\* main() as an exception anywhere else
IoInterrupted ==
    /\ pc \in {"read_master", "read_stdin", "write"} /\ ~py35
    /\ pc = "write" => remaining > 0
    /\ IsHandler(sigChld) \/ IsHandler(sigWinch)
    /\ IF pc \in EintrProtected
         THEN UNCHANGED <<pc, exc, ended, loopVars, chainVars, writeVars, relayVars>>
         ELSE RaiseTo("eintr") /\ ended' = "error"
    /\ UNCHANGED <<cfgVars, geomVars, flowVars, locVars, resVars, envVars, tdlog>>

\* where the loop goes once the master's part of an iteration is over
\* (line 216)
AfterMaster == IF STDIN_FILENO \in read_ready THEN "read_stdin" ELSE "select"

\* a loop that takes only the zero-length read for the end of the output
BreaksOnEofOnly == {"eof"}

\* lines 195-197, 212-214: the outcomes of the read on a closed pty that
\* break: a zero-length read (BSD) and EIO (Linux)
BreaksOn == {"eof", "eio"}

\* lines 189-199, 212-214: read(parent_fd, maxread); EIO or a zero-length
\* read breaks, a chunk starts the output chain
ReadMaster ==
    /\ pc = "read_master"
    /\ IF ptyOut # <<>>
         THEN /\ data' = Head(ptyOut) /\ orig' = Head(ptyOut)
              /\ ptyOut' = Tail(ptyOut)
              /\ hi' = 1 /\ hookCalls' = <<>> /\ gotEmpty' = FALSE
              /\ pc' = "out_hook"
              /\ UNCHANGED <<exc, ended, loopVars, writeVars, relayVars>>
         ELSE /\ HungUp
              /\ \E how \in {"eof", "eio"} :
                   /\ ended' = how
                   /\ IF how \in BreaksOn
                        THEN LeaveLoop /\ UNCHANGED <<exc, relayVars>>
                        ELSE RaiseTo("io")
              /\ UNCHANGED ptyOut
    /\ UNCHANGED <<cfgVars, geomVars, flowVars, locVars, resVars, spawned, slaveOpen,
                   childStatus, stdinBuf, stdinEOF, tdlog>>

\* a chain that drops every replacement
NextDataKept(d, r) == d

\* lines 205-208 / 225-228: the chunk the next hook sees after a result
NextData(d, r) == IF r.kind = "bytes" /\ r.val # <<>> THEN r.val ELSE d

\* lines 206-207 / 226-227: an empty (but not None) result leaves the for loop
Breaks(r) == r.kind = "bytes" /\ r.val = <<>>

\* lines 203-210 / 223-230: one pass of the for loop over `hooks`, or, the
\* loop being over, the call write(fd, data)
HookStep(hooks, here, fd, ret) ==
    /\ pc = here
    /\ IF hi > Len(hooks) \/ gotEmpty
         THEN /\ pc' = "write_call"
              /\ wfd' = fd /\ wret' = ret
              /\ UNCHANGED <<exc, chainVars, wdata, remaining, wsegs, ended, loopVars,
                             relayVars>>
         ELSE LET r == Hook(hooks[hi], data) IN
              /\ IF r.kind = "raise"
                   THEN RaiseTo("hook") /\ ended' = "error"
                   ELSE /\ hookCalls' = Append(hookCalls, <<hi, data>>)
                        /\ gotEmpty' = Breaks(r)
                        /\ data' = NextData(data, r)
                        /\ hi' = hi + 1
                        /\ UNCHANGED <<pc, exc, ended, orig, writeVars, loopVars, relayVars>>
    /\ UNCHANGED <<cfgVars, geomVars, flowVars, locVars, resVars, envVars, tdlog>>

OutHook == HookStep(output_hooks, "out_hook", STDOUT_FILENO, AfterMaster)

InHook == HookStep(input_hooks, "in_hook", parent_fd, "select")

\* an end-of-input that leaves stdin monitored
KeepStdin(m) == m

\* an end-of-input that drops the master from the list
RemoveMaster(m) == m \ {parent_fd}

\* line 234: monitored_files.remove(STDIN_FILENO)
RemoveStdin(m) == m \ {STDIN_FILENO}

\* lines 220-222, 232-234: os.read(STDIN_FILENO, maxread); a zero-length
\* read stops the monitoring of stdin and ends the iteration (its locals
\* are dead at line 164), a chunk starts the input chain
ReadStdin ==
    /\ pc = "read_stdin"
    /\ IF stdinBuf # <<>>
         THEN /\ data' = Head(stdinBuf) /\ orig' = Head(stdinBuf)
              /\ stdinBuf' = Tail(stdinBuf)
              /\ hi' = 1 /\ hookCalls' = <<>> /\ gotEmpty' = FALSE
              /\ pc' = "in_hook"
              /\ UNCHANGED monitored_files
              /\ UNCHANGED <<read_ready, writeVars>>
         ELSE /\ stdinEOF
              /\ monitored_files' = RemoveStdin(monitored_files)
              /\ pc' = "select"
              /\ read_ready' = {}
              /\ data' = <<>> /\ hi' = 1 /\ orig' = <<>> /\ hookCalls' = <<>>
              /\ gotEmpty' = FALSE
              /\ wfd' = STDOUT_FILENO /\ wdata' = <<>> /\ remaining' = 0 /\ wsegs' = <<>>
              /\ wret' = "select"
              /\ UNCHANGED stdinBuf
    /\ UNCHANGED <<cfgVars, geomVars, flowVars, exc, locVars, resVars, spawned, slaveOpen,
                   childStatus, ptyOut, stdinEOF, emitted,
                   stdoutWrites, typed, masterWrites, tdlog, ended>>

(* ------------------------------ write() ------------------------------- *)
\* lines 112-113: remaining = len(data)
WriteCall ==
    /\ pc = "write_call"
    /\ wdata' = data /\ remaining' = Len(data) /\ wsegs' = <<>>
    /\ pc' = "write"
    /\ UNCHANGED <<cfgVars, geomVars, flowVars, exc, locVars, loopVars, chainVars, wfd, wret, resVars, envVars,
                   histVars>>

\* data[:remaining], the slice taken from the wrong end
SlicePrefix(d, r) == SubSeq(d, 1, r)

\* line 115: the slice handed to _write
Slice(d, r) == Suffix(d, r)

\* bytes the descriptor takes without making the writer wait
Room(fd) == IF fd = parent_fd THEN PtyCap - ptyIn ELSE MaxData + 1

\* lines 114-115: one _write(fd, data[-remaining:]) accepting n bytes; a
\* write to a full pty sleeps until the slave side has read
WriteStep ==
    /\ pc = "write" /\ remaining > 0
    /\ \E n \in 1..remaining :
         /\ n <= Room(wfd)
         /\ wsegs' = Append(wsegs, SubSeq(Slice(wdata, remaining), 1, n))
         /\ remaining' = remaining - n
         /\ ptyIn' = IF wfd = parent_fd THEN ptyIn + n ELSE ptyIn
    /\ UNCHANGED <<cfgVars, geomVars, childBlocked, pc, exc, locVars, loopVars, chainVars, wfd, wdata, wret, resVars,
                   envVars, histVars>>

\* line 230 / 115: _write on the master of a pty whose slave side is closed
\* fails with EIO (Linux; elsewhere the bytes may be taken and dropped,
\* which is WriteStep); nothing catches it, it leaves the loop as an
\* exception
WriteHungUp ==
    /\ pc = "write" /\ remaining > 0 /\ wfd = parent_fd /\ HungUp
    /\ RaiseTo("io")
    /\ ended' = "hangup"
    /\ UNCHANGED <<cfgVars, geomVars, flowVars, locVars, resVars, envVars, tdlog>>

\* line 114: remaining is 0, write() returns; the descriptor has received
\* the accepted segments.  Back at the top of the loop (line 164) the locals
\* of the iteration are dead: every one is assigned before it is read again
WriteReturn ==
    /\ pc = "write" /\ remaining <= 0
    /\ pc' = wret
    /\ IF wfd = STDOUT_FILENO
         THEN stdoutWrites' = Append(stdoutWrites, Flatten(wsegs)) /\ UNCHANGED masterWrites
         ELSE masterWrites' = Append(masterWrites, Flatten(wsegs)) /\ UNCHANGED stdoutWrites
    /\ IF wret = "select"
         THEN /\ read_ready' = {}
              /\ data' = <<>> /\ hi' = 1 /\ orig' = <<>> /\ hookCalls' = <<>>
              /\ gotEmpty' = FALSE
              /\ wfd' = STDOUT_FILENO /\ wdata' = <<>> /\ wsegs' = <<>>
              /\ UNCHANGED <<remaining, wret>>
         ELSE UNCHANGED <<read_ready, chainVars, writeVars>>
    /\ UNCHANGED <<cfgVars, geomVars, flowVars, exc, locVars, monitored_files, resVars, envVars,
                   emitted, typed, tdlog, ended>>

(* ------------------------ main(): teardown ---------------------------- *)
\* the statements of the finally clause, each applied to the resources the
\* clause touches (tdlog keeps the calls made, in the order made)

\* lines 237-238
RestoreWinch(r) ==
    IF Truthy(old_sigwinch_handler)
      THEN [r EXCEPT !.sigWinch = old_sigwinch_handler, !.tdlog = Append(@, "sigwinch")]
      ELSE r

\* a restore that only the path without exception reaches
RestoreTtyOnSuccess(r) ==
    IF original_tty_attr # None /\ exc = "none"
      THEN [r EXCEPT !.ttyAttr = original_tty_attr, !.tdlog = Append(@, "tcsetattr")]
      ELSE r

\* lines 239-240
RestoreTty(r) ==
    IF original_tty_attr # None
      THEN [r EXCEPT !.ttyAttr = original_tty_attr, !.tdlog = Append(@, "tcsetattr")]
      ELSE r

\* lines 241-242
RestoreChld(r) ==
    IF Truthy(old_sigchld_handler)
      THEN [r EXCEPT !.sigChld = old_sigchld_handler, !.tdlog = Append(@, "sigchld")]
      ELSE r

\* a close that only the path without exception reaches
CloseMasterOnSuccess(r) ==
    IF exc = "none" THEN [r EXCEPT !.masterOpen = FALSE, !.tdlog = Append(@, "close")] ELSE r

\* line 243
CloseMaster(r) == [r EXCEPT !.masterOpen = FALSE, !.tdlog = Append(@, "close")]

FinallyStep(step, r) ==
    CASE step = "fin_winch" -> RestoreWinch(r)
      [] step = "fin_tty" -> RestoreTty(r)
      [] step = "fin_chld" -> RestoreChld(r)
      [] step = "fin_close" -> CloseMaster(r)

RECURSIVE RunFinally(_, _)
RunFinally(steps, r) ==
    IF steps = <<>> THEN r ELSE RunFinally(Tail(steps), FinallyStep(Head(steps), r))

\* the finally clause is over
PastFinally == pc \in {"wait", "done", "raised"}

\* lines 236-245: the finally clause; then the pending exception propagates,
\* or line 245 runs
Finally ==
    /\ pc = FinallyStart
    /\ LET r == RunFinally(FinallyOrder,
                   [sigWinch |-> sigWinch, ttyAttr |-> ttyAttr, sigChld |-> sigChld,
                    masterOpen |-> masterOpen, tdlog |-> tdlog]) IN
         /\ sigWinch' = r.sigWinch /\ ttyAttr' = r.ttyAttr /\ sigChld' = r.sigChld
         /\ masterOpen' = r.masterOpen /\ tdlog' = r.tdlog
         \* a closed descriptor has no window size, and with the master
         \* closed the pty holds nothing and keeps no writer waiting
         /\ masterGeom' = IF r.masterOpen THEN masterGeom ELSE None
         /\ ptyIn' = IF r.masterOpen THEN ptyIn ELSE 0
         /\ childBlocked' = (r.masterOpen /\ childBlocked)
    /\ pc' = IF exc = "none" THEN "wait" ELSE "raised"
    /\ UNCHANGED <<cfgVars, childGeom, usedClosed, exc, locVars, loopVars, chainVars, writeVars, childFdOpen, retval,
                   envVars, emitted, stdoutWrites, typed, masterWrites, ended>>

\* line 245: the status process.wait() hands back
WaitResult(st) == st

\* line 245: return process.wait(), which blocks until the subprocess is gone
Wait ==
    /\ pc = "wait"
    /\ childStatus # <<>>
    /\ retval' = <<WaitResult(childStatus[1])>>
    /\ tdlog' = Append(tdlog, "wait")
    /\ pc' = "done"
    /\ UNCHANGED <<cfgVars, geomVars, flowVars, exc, locVars, loopVars, chainVars, writeVars, masterOpen,
                   childFdOpen, ttyAttr, sigWinch, sigChld, envVars, emitted,
                   stdoutWrites, typed, masterWrites, ended>>

(* --------------------------- environment ------------------------------ *)
\* main() looks at the environment in select (line 168) and in process.poll
\* (lines 172, 180); the reads that follow a select take what made the
\* descriptor readable, and every other statement of the loop touches no
\* environment state, so environment steps taken elsewhere commute with
\* main()'s and are taken here
Live == spawned /\ pc \in {"select", "select_eintr"}

\* main() is inside a _write on the master (line 230 through line 115),
\* whose outcome depends on the slave side: the other place where
\* environment steps are taken
WritePoint == spawned /\ pc = "write" /\ wfd = parent_fd /\ remaining > 0

\* main() sleeps in that _write: the pty takes no more input
WriteBlocked == WritePoint /\ Room(parent_fd) = 0 /\ ~HungUp

\* the subprocess writes a chunk to the pty, which has room for it
ChildEmit ==
    /\ (Live \/ WriteBlocked) /\ slaveOpen /\ childStatus = <<>> /\ ~childBlocked
    /\ Len(emitted) + Len(typed) < MaxChunks
    /\ Len(ptyOut) < PtyCap
    /\ \E c \in OutChunks :
         /\ ptyOut' = Append(ptyOut, c)
         /\ emitted' = Append(emitted, c)
    /\ UNCHANGED <<cfgVars, geomVars, flowVars, pc, exc, locVars, loopVars, chainVars, writeVars, resVars, spawned,
                   slaveOpen, childStatus, stdinBuf, stdinEOF,
                   stdoutWrites, typed, masterWrites, tdlog, ended>>

\* a signal with a Python-level handler arrives while select() sleeps:
\* before PEP 475 (line 57) select fails with EINTR, from 3.5 on the
\* interpreter retries it
Interrupts(handler) == IsHandler(handler) /\ Blocked /\ ~py35

\* where main() is after a signal: in the except clause of the select when
\* the signal found it asleep there, where it was when the signal came
\* earlier in the iteration
AfterSignal(handler) == IF Interrupts(handler) THEN {"select_eintr", pc} ELSE {pc}

\* the subprocess terminates: SIGCHLD is sent to this process
ChildExit ==
    /\ (Live \/ pc = "wait") /\ childStatus = <<>>
    /\ \E st \in Statuses : childStatus' = <<st>>
    /\ childGeom' = None
    /\ pc' \in AfterSignal(sigChld)
    /\ UNCHANGED <<cfgVars, flowVars, masterGeom, usedClosed, exc, locVars, loopVars, chainVars, writeVars, resVars, spawned,
                   slaveOpen, ptyOut, stdinBuf, stdinEOF, histVars>>

\* the last descriptor of the slave is closed and the master sees the
\* hang-up: the subprocess closed its standard streams, or it has exited
\* and no descendant holds the slave any more
SlaveClose ==
    /\ (Live \/ WritePoint) /\ slaveOpen /\ ~childBlocked
    /\ slaveOpen' = FALSE
    /\ ptyIn' = 0
    /\ UNCHANGED <<cfgVars, geomVars, childBlocked, pc, exc, locVars, loopVars, chainVars, writeVars, resVars, spawned,
                   childStatus, ptyOut, stdinBuf, stdinEOF, histVars>>

\* the slave side reads what was written to the master; a subprocess
\* asleep in a write does not read
ChildRead ==
    /\ (Live \/ WriteBlocked) /\ slaveOpen /\ ~childBlocked /\ ptyIn > 0
    /\ ptyIn' = 0
    /\ UNCHANGED <<cfgVars, geomVars, childBlocked, pc, exc, locVars, loopVars, chainVars,
                   writeVars, resVars, envVars, histVars>>

\* the subprocess writes to a pty that is full and sleeps until the master
\* is read; taken where it shows, while main() itself waits for the slave
\* side to read
ChildBlocks ==
    /\ WriteBlocked /\ slaveOpen /\ childStatus = <<>> /\ ~childBlocked
    /\ Len(ptyOut) = PtyCap
    /\ childBlocked' = TRUE
    /\ UNCHANGED <<cfgVars, geomVars, ptyIn, pc, exc, locVars, loopVars, chainVars,
                   writeVars, resVars, envVars, histVars>>

\* the user types a chunk on the controlling input
UserType ==
    /\ Live /\ ~stdinEOF /\ Len(emitted) + Len(typed) < MaxChunks
    /\ \E c \in InChunks :
         /\ stdinBuf' = Append(stdinBuf, c)
         /\ typed' = Append(typed, c)
    /\ UNCHANGED <<cfgVars, geomVars, flowVars, pc, exc, locVars, loopVars, chainVars, writeVars, resVars, spawned,
                   slaveOpen, childStatus, ptyOut, stdinEOF, emitted,
                   stdoutWrites, masterWrites, tdlog, ended>>

\* the controlling input reaches end-of-input
UserEOF ==
    /\ Live /\ ~stdinEOF
    /\ stdinEOF' = TRUE
    /\ UNCHANGED <<cfgVars, geomVars, flowVars, pc, exc, locVars, loopVars, chainVars, writeVars, resVars, spawned,
                   slaveOpen, childStatus, ptyOut, stdinBuf, histVars>>

\* lines 148-154: what SIGWINCH does, the pty having the size `mg` and
\* the subprocess having read the size `cg`: sigwinch_handler, if installed,
\* copies the terminal's size to parent_fd and signals the subprocess; on a
\* closed parent_fd the ioctl of copy_winsize fails (or hits whatever file
\* got the number) and send_signal is not reached
OnSigwinch(mg, cg) ==
    IF sigWinch # "sigwinch_handler"
      THEN masterGeom' = mg /\ childGeom' = cg /\ UNCHANGED usedClosed
      ELSE IF masterOpen
        THEN /\ masterGeom' = copy_winsize(mg, Current)
             /\ childGeom' = send_signal(cg, masterGeom')
             /\ UNCHANGED usedClosed
        ELSE usedClosed' = TRUE /\ masterGeom' = mg /\ childGeom' = cg

\* SIGWINCH is delivered (kill -WINCH) with the terminal as it was
DeliverWinch ==
    /\ Live
    /\ pc' \in AfterSignal(sigWinch)
    /\ OnSigwinch(masterGeom, childGeom)
    /\ UNCHANGED <<cfgVars, flowVars, exc, locVars, loopVars, chainVars, writeVars, resVars,
                   spawned, slaveOpen, childStatus, ptyOut, stdinBuf, stdinEOF, histVars>>

\* the controlling terminal is resized, which makes the sizes recorded so
\* far old ones, and SIGWINCH is delivered: before the handler is installed
\* (line 156), during the loop, and after the finally clause when
\* sigwinch_handler is still installed (nothing else of main() sees the
\* size then; the first call on the closed descriptor is the one recorded).
\* A handler that fails during process.wait() raises there
Resize ==
    /\ isatty
    /\ \/ pc = "winch"
       \/ Live
       \/ PastFinally /\ sigWinch = "sigwinch_handler" /\ ~usedClosed
    /\ OnSigwinch(Aged(masterGeom), Aged(childGeom))
    /\ IF pc = "wait" /\ usedClosed'
         THEN pc' = "raised" /\ exc' = "handler"
         ELSE pc' \in AfterSignal(sigWinch) /\ UNCHANGED exc
    /\ UNCHANGED <<cfgVars, flowVars, locVars, loopVars, chainVars, writeVars, resVars,
                   spawned, slaveOpen, childStatus, ptyOut, stdinBuf, stdinEOF, histVars>>

(* --------------------------- specifications --------------------------- *)
Next ==
    \/ Exec \/ ExecFails \/ OpenPty \/ SetRaw \/ SigchldSetup \/ Popen \/ PopenFails
    \/ CloseChildFd \/ WinchSetup
    \/ Select \/ SelectEintr \/ FatalIO \/ IoInterrupted \/ ReadMaster \/ OutHook \/ ReadStdin \/ InHook
    \/ WriteCall \/ WriteStep \/ WriteHungUp \/ WriteReturn
    \/ Finally \/ Wait
    \/ ChildEmit \/ ChildExit \/ SlaveClose \/ ChildRead \/ ChildBlocks \/ UserType \/ UserEOF
    \/ DeliverWinch \/ Resize

Spec == Init /\ [][Next]_vars

\* byte strings of at most n bytes
ByteStrings(n) == UNION { [1..k -> Bytes] : k \in 0..n }

\* write(fd, data) on its own: any descriptor, any byte string; the master
\* has a subprocess on the slave side
WriteInit ==
    /\ input_hooks = <<>> /\ output_hooks = <<>> /\ isatty = FALSE /\ py35 = FALSE
    /\ entryWinch = "SIG_DFL" /\ entryChld = "SIG_DFL" /\ entryAttr = "notty"
    /\ pc = "write_call"
    /\ wfd \in {STDOUT_FILENO, parent_fd} /\ wret = "returned"
    /\ data \in ByteStrings(MaxData)
    /\ spawned = TRUE /\ slaveOpen = TRUE
    /\ InitRest

WriteNext == WriteCall \/ WriteStep \/ WriteReturn \/ ChildRead

WriteSpec == WriteInit /\ [][WriteNext]_vars

(* ------------------------------ claims -------------------------------- *)
\* the statements of the relay loop (lines 164-234); write() is entered from
\* lines 210 and 230 only
InLoop ==
    pc \in {"select", "select_eintr", "read_master", "out_hook", "read_stdin", "in_hook",
            "write_call", "write"}

\* the chain the chunk in hand goes through
ChainInHand == IF pc = "in_hook" \/ wfd = parent_fd THEN input_hooks ELSE output_hooks

\* the hook protocol as specified: no result passes the chunk on, a
\* non-empty result replaces it, an empty result ends the chain and
\* suppresses the write
RECURSIVE ChainOutput(_, _)
ChainOutput(hooks, d) ==
    IF hooks = <<>> THEN d
    ELSE LET r == Hook(Head(hooks), d) IN
         IF r.kind = "bytes" /\ r.val = <<>> THEN <<>>
         ELSE IF r.kind = "bytes" THEN ChainOutput(Tail(hooks), r.val)
         ELSE ChainOutput(Tail(hooks), d)

\* some hook of the chain answers a chunk, as the chain hands it on, with an
\* empty result
RECURSIVE HasEmpty(_, _)
HasEmpty(hooks, d) ==
    /\ hooks # <<>>
    /\ LET r == Hook(Head(hooks), d) IN
         \/ Breaks(r)
         \/ HasEmpty(Tail(hooks), IF r.kind = "bytes" THEN r.val ELSE d)

\* C1: when main() returns, the bytes written to the controlling output are
\* the concatenation, in emission order, of the output chain's result for
\* every chunk the subprocess emitted: nothing dropped, duplicated or
\* reordered.
C1_AllOutputRelayed ==
    pc = "done" =>
        Flatten(stdoutWrites)
          = Flatten([i \in 1..Len(emitted) |-> ChainOutput(output_hooks, emitted[i])])

\* C2: once a hook has returned an empty result for a chunk, no later hook
\* of the chain has been called for it and the write for the chunk carries
\* zero bytes.
C2_EmptySuppresses ==
    (gotEmpty /\ pc \in {"out_hook", "in_hook", "write_call", "write"}) =>
        /\ hookCalls # <<>>
        /\ LET last == hookCalls[Len(hookCalls)] IN Breaks(Hook(ChainInHand[last[1]], last[2]))
        /\ pc = "write_call" => data = <<>>
        /\ pc = "write" => wdata = <<>>

\* C3: when no hook of the chain returned an empty result, at the call of
\* write() every hook has been called exactly once, in registration order,
\* each on the chunk as replaced by the hooks before it, and the bytes
\* handed to write() are the left-to-right fold of the chain over the chunk
\* read; and as long as no input chunk was answered with an empty result,
\* the writes to the master are the folds of the chunks typed, in the order
\* read.
C3_ChainFold ==
    /\ (pc = "write_call" /\ ~gotEmpty) =>
         /\ Len(hookCalls) = Len(ChainInHand)
         /\ \A i \in 1..Len(hookCalls) :
              /\ hookCalls[i][1] = i
              /\ hookCalls[i][2] = ChainOutput(SubSeq(ChainInHand, 1, i - 1), orig)
         /\ data = ChainOutput(ChainInHand, orig)
    /\ (\A i \in 1..Len(masterWrites) : ~HasEmpty(input_hooks, typed[i])) =>
         /\ Len(masterWrites) <= Len(typed)
         /\ \A i \in 1..Len(masterWrites) :
              masterWrites[i] = ChainOutput(input_hooks, typed[i])

\* C3 witness: scenario C, chunk a arrives at write() as b after both hooks ran
C3_Witness ==
    /\ pc = "write_call" /\ ~gotEmpty /\ wfd = STDOUT_FILENO
    /\ output_hooks = <<"a2b", "identity">>
    /\ orig = <<97>> /\ data = <<98>>
    /\ hookCalls = << <<1, <<97>> >>, <<2, <<98>> >> >>

\* how often the teardown made the call `what`
Count(what) == Cardinality({ i \in DOMAIN tdlog : tdlog[i] = what })

\* C4: attributes captured before raw mode (stdin is a terminal) are reapplied
\* exactly once on every path through the teardown, so that afterwards the
\* terminal has the attributes it had at entry; when nothing was captured no
\* restore is made.  During the relay the terminal is raw.
C4_TtyRestored ==
    /\ (InLoop /\ isatty) => (original_tty_attr = entryAttr /\ ttyAttr = "raw")
    /\ PastFinally =>
         /\ ttyAttr = entryAttr
         /\ Count("tcsetattr") = IF isatty THEN 1 ELSE 0

\* C4 witness: a hook failed with the terminal raw, and the attributes are back
C4_Witness ==
    /\ pc = "raised" /\ exc = "hook" /\ isatty
    /\ original_tty_attr = "cooked" /\ ttyAttr = "cooked" /\ Count("tcsetattr") = 1

\* C5: the master is open at every statement of the relay loop and up to
\* the finally clause, and after the finally clause it is closed, by exactly
\* one close, whatever ended the loop.
C5_MasterClosedOnce ==
    /\ (InLoop \/ pc = "finally") => (masterOpen /\ Count("close") = 0)
    /\ PastFinally => (~masterOpen /\ Count("close") = 1)

\* C5 witness: the loop ended on an interrupted wait and the master is closed
C5_Witness == pc = "done" /\ ended = "eintr" /\ ~masterOpen /\ Count("close") = 1

\* the teardown calls of a run that ends without error, in the order
\* specified, leaving out the restores that have nothing to restore
TeardownCalls ==
    LET Applies(x) ==
          CASE x = "sigwinch" -> isatty /\ Truthy(entryWinch)
            [] x = "tcsetattr" -> isatty
            [] x = "sigchld" -> Truthy(entryChld)
            [] x = "close" -> TRUE
            [] x = "wait" -> pc = "done"
    IN SelectSeq(<<"sigwinch", "tcsetattr", "sigchld", "close", "wait">>, Applies)

C7_WaitedOnError ==
    (pc = "raised" /\ exc = "io") => (~masterOpen /\ Count("close") = 1 /\ Count("wait") = 1)

\* C8: when main() has returned, the dispositions of SIGWINCH and SIGCHLD are
\* the ones it was entered with.
C8_DispositionsRestored ==
    pc = "done" => (sigWinch = entryWinch /\ sigChld = entryChld)

\* stdin has been removed from the monitored list and the loop goes on
StdinGone == InLoop /\ monitored_files = {parent_fd}

\* C9, in the states: after end-of-input the loop reads and relays only the
\* master; it is left without error only on the closure of the subprocess's
\* output (zero-length read or EIO with nothing left to read) or on an
\* interrupted wait with the subprocess terminated; main() then returns the
\* status of the subprocess.
C9_States ==
    /\ StdinGone =>
         /\ masterOpen
         /\ pc \notin {"read_stdin", "in_hook"}
         /\ pc \in {"write_call", "write"} => wfd = STDOUT_FILENO
    /\ (pc \in {"finally", "wait", "done"} /\ exc = "none" /\ monitored_files = {parent_fd}) =>
         \/ ended \in {"eof", "eio"} /\ ~slaveOpen /\ ptyOut = <<>>
         \/ ended = "eintr" /\ childStatus # <<>>
    /\ pc = "done" => retval = childStatus

\* C9, in the steps: the zero-length read on stdin takes the loop back to
\* select with the master alone monitored; from then on nothing is read from
\* stdin, nothing is written to the master (its record stays, or ends with
\* an exception) and stdin is not monitored again.
C9_Steps ==
    /\ (pc = "read_stdin" /\ stdinBuf = <<>> /\ exc' = "none") =>
         (pc' = "select" /\ monitored_files' = {parent_fd})
    /\ StdinGone =>
         /\ masterWrites' \in {masterWrites, <<>>} /\ stdinBuf' = stdinBuf
         /\ monitored_files' = {parent_fd}

\* C9: end-of-input on stdin stops the input relay and not the loop
C9_EofKeepsRelaying == [](C9_States) /\ [][C9_Steps]_vars

\* C9 witness: an output chunk is being written after stdin was removed
C9_Witness ==
    /\ StdinGone /\ pc = "write" /\ wfd = STDOUT_FILENO
    /\ wsegs # <<>> /\ remaining = 0

\* C10: write(fd, data): the segments the primitive accepted, in call order,
\* are at every moment the bytes of data before the cursor, each segment is
\* non-empty, and when write has returned they are exactly data, delivered to
\* fd; for empty data the primitive was not called.
C10_WriteAll ==
    /\ pc = "write" =>
         /\ wdata = data /\ remaining \in 0..Len(data)
         /\ Flatten(wsegs) = SubSeq(data, 1, Len(data) - remaining)
         /\ \A i \in 1..Len(wsegs) : wsegs[i] # <<>>
    /\ pc = "returned" =>
         /\ remaining = 0 /\ Flatten(wsegs) = data
         /\ data = <<>> => wsegs = <<>>
         /\ IF wfd = STDOUT_FILENO
              THEN stdoutWrites = <<data>> /\ masterWrites = <<>>
              ELSE masterWrites = <<data>> /\ stdoutWrites = <<>>

\* C10 witness: three bytes delivered by three partial writes
C10_Witness == pc = "returned" /\ Len(data) = 3 /\ Len(wsegs) = 3 /\ Flatten(wsegs) = data

\* C12: when the spawn has failed and the failure has reached the caller,
\* both descriptors of the pty pair are closed and the terminal has the
\* attributes it was entered with.
C12_SpawnFailureClosesPair ==
    (pc = "raised" /\ exc = "spawn") =>
        (~masterOpen /\ ~childFdOpen /\ ttyAttr = entryAttr)

\* C13: the process image is replaced exactly when both hook lists are
\* empty, and then with no pty allocated, the terminal mode and both signal
\* dispositions as at entry, no subprocess spawned and no teardown call
\* made; main() never gets past the replacement, and in particular never
\* returns.  With a hook in either list the image is never replaced: the
\* loop runs with the pty allocated and the subprocess spawned, and main()
\* returns after a teardown with its close and its wait.
C13_ExecIffNoHooks ==
    LET none == input_hooks = <<>> /\ output_hooks = <<>> IN
    /\ none => pc \in {"main", "execed", "exec_error"}
    /\ pc \in {"execed", "exec_error"} =>
         /\ none
         /\ ~masterOpen /\ ~childFdOpen /\ ~spawned
         /\ ttyAttr = entryAttr /\ sigWinch = entryWinch /\ sigChld = entryChld
         /\ tdlog = <<>> /\ retval = <<>>
    /\ (~none /\ InLoop) => (masterOpen /\ spawned)
    /\ (~none /\ pc = "done") => (spawned /\ Count("close") = 1 /\ Count("wait") = 1)

\* C13 witness: without hooks the process image has been replaced
C13_Witness == pc = "execed" /\ input_hooks = <<>> /\ output_hooks = <<>> /\ ~masterOpen

\* C14, in the steps: out of an interrupted select the loop either ends at
\* once, when the subprocess has terminated, or goes back to the select with
\* the same monitored list; either way nothing was read, no hook was called
\* and nothing was written.  The select itself is left for the finally
\* clause only by an error that is raised.
C14_Steps ==
    /\ (pc = "select_eintr" /\ pc' # pc) =>
         /\ IF childStatus # <<>>
              THEN pc' = "finally" /\ ended' = "eintr" /\ exc' = "none"
              ELSE pc' = "select" /\ monitored_files' = monitored_files /\ exc' = "none"
         /\ UNCHANGED <<ptyOut, stdinBuf, stdoutWrites, masterWrites, hookCalls>>
    /\ (pc = "select" /\ pc' = "finally") => exc' # "none"

\* C14: an interrupted readiness wait is followed by the check of the
\* subprocess, then by the end of the loop or by the same wait again
C14_InterruptedWait == [][C14_Steps]_vars

\* C14 witness: the loop ended on an interrupted wait with a chunk of the
\* subprocess still unread
C14_Witness == pc = "finally" /\ ended = "eintr" /\ exc = "none" /\ ptyOut # <<>>

\* C15, in the steps: a read of the master that finds the pty closed leaves
\* the loop at once and without exception, whether it fails with EIO or
\* returns no bytes: stdin is not read, no hook is called, nothing is
\* written; the finally clause then leads to the wait.
C15_Steps ==
    /\ (pc = "read_master" /\ ptyOut = <<>> /\ pc' # pc /\ ended' # "error") =>
         /\ pc' = "finally" /\ exc' = "none"
         /\ UNCHANGED <<stdinBuf, stdoutWrites, masterWrites, monitored_files>>
         /\ hookCalls' = <<>>
    /\ (pc = "finally" /\ ended \in {"eof", "eio"} /\ pc' # pc) => pc' = "wait"

\* C15, in the states: after either outcome the teardown is reached without
\* exception, and main() returns the status of the subprocess; any other
\* error of the read is raised.
C15_States ==
    /\ (ended \in {"eof", "eio"} /\ pc \in {"finally", "wait", "done"}) => exc = "none"
    /\ (ended \in {"eof", "eio"} /\ pc = "done") =>
         (retval = childStatus /\ retval # <<>> /\ ~masterOpen)
    /\ (ended = "error" /\ pc \in {"finally", "raised"}) => exc # "none"

\* C15: zero-length read and EIO on the master both end the relay normally
C15_MasterClosureEndsLoop == [](C15_States) /\ [][C15_Steps]_vars

\* C15 witness: main() returned after EIO on the master, input that was
\* ready left unread
C15_Witness == pc = "done" /\ ended = "eio" /\ stdinBuf # <<>> /\ retval = <<0>>

\* C16, in the states: in the loop the monitored list is the master with or
\* without stdin; stdin is read, and its chunk run through the input chain,
\* only while it is monitored; the loop is never left on an empty list.
C16_States ==
    /\ InLoop => monitored_files \in {{parent_fd, STDIN_FILENO}, {parent_fd}}
    /\ pc \in {"read_stdin", "in_hook"} => STDIN_FILENO \in monitored_files
    /\ ended # "empty"

\* C16, in the steps: the list is created with both descriptors, the only
\* change in the loop is the removal of stdin after a zero-length read on
\* stdin, and the loop is left by a break or by an exception.
C16_Steps ==
    /\ (pc = "winch" /\ pc' # pc) => monitored_files' = {parent_fd, STDIN_FILENO}
    /\ (InLoop /\ monitored_files' # monitored_files) =>
         /\ pc = "read_stdin" /\ stdinBuf = <<>> /\ stdinEOF
         /\ monitored_files = {parent_fd, STDIN_FILENO}
         /\ monitored_files' = {parent_fd}
    /\ (InLoop /\ pc' = "finally") => (exc' # "none" \/ ended' \in {"eof", "eio", "eintr"})

\* C16: the monitored set is {master, stdin} or {master}, and only shrinks
C16_MonitoredSet == [](C16_States) /\ [][C16_Steps]_vars

\* C16 witness: the master is read with stdin no longer monitored
C16_Witness == pc = "read_master" /\ monitored_files = {parent_fd} /\ stdinEOF

\* C18: no interrupted call (EINTR) leaves the loop as an exception: whether
\* it hit the read on the master, the read on stdin, a write or the select,
\* the exception pending in the finally clause and the one that reaches the
\* caller are never an interrupted call.
C18_EintrNeverRaised ==
    pc \in {"finally", "raised"} => exc # "eintr"

\* C11: with stdin a terminal, at every statement of the relay loop the pty
\* has the size of the controlling terminal, and a subprocess still alive
\* has been signalled since the pty got that size: whatever resizes
\* happened, before the handler was installed or during the loop.
C11_GeometryFollows ==
    (isatty /\ InLoop) =>
        /\ masterGeom = Current
        /\ childStatus = <<>> => childGeom = Current

\* C11 witness: the select was interrupted by a resize, and pty and
\* subprocess have the new size
C11_Witness ==
    /\ pc = "select_eintr" /\ isatty /\ childStatus = <<>> /\ entryChld = "SIG_IGN"
    /\ masterGeom = Current /\ childGeom = Current
    /\ stdoutWrites # <<>>

\* C19: copy_winsize is never called on parent_fd after os.close(parent_fd):
\* when the loop ended without error, a SIGWINCH that arrives during
\* process.wait() or after main() returned does not find sigwinch_handler
\* installed.
C19_NoUseAfterClose ==
    (exc \in {"none", "handler"} /\ pc \in {"wait", "done", "raised"}) => ~usedClosed

\* C17: the slave copy of this process is closed before the loop; once the
\* subprocess has terminated and every descriptor of the slave is closed,
\* the select does not sleep, and when the loop has been left and the
\* finally clause is over, main() is on its way to return the status
\* unless an error that is not the closing of the pty was raised (spawn
\* failure, hook exception, fatal I/O error, failing signal handler).
C17_GoneMeansStatus ==
    /\ InLoop => ~childFdOpen
    /\ (pc = "select" /\ childStatus # <<>> /\ HungUp) => Ready # {}
    /\ (PastFinally /\ childStatus # <<>> /\ HungUp /\ ended # "error" /\ exc # "handler") =>
         /\ pc \in {"wait", "done"}
         /\ pc = "done" => retval = childStatus

\* C20: main() is never asleep in a write to the full pty while the
\* subprocess is asleep in a write to the same pty, full in the other
\* direction.
C20_NoMutualWait == ~(WriteBlocked /\ childBlocked)

====
